---- MODULE Spec2Model ----
(***************************************************************************)
(* Model of pthomison/ddbstore: a gorilla/sessions Store that keeps the    *)
(* session values in a DynamoDB table and the session identifier in an     *)
(* authenticated cookie (src/store.go, src/constants.go).                  *)
(*                                                                         *)
(* The backend (DynamoDB), the codec (gorilla/securecookie) and the cookie *)
(* transport (net/http) are libraries; they are modelled by what the calls *)
(* the source makes do: point get/put/delete on one table, describe /      *)
(* create / enable-TTL on the table, Encode/Decode with key, name, length  *)
(* cap and timestamp checks.  Every backend call takes an outcome "ok" or  *)
(* "err" (timeout, throttling, permission) chosen by the environment.      *)
(***************************************************************************)
EXTENDS Integers, Sequences, FiniteSets, TLC

\* ---------------------------------------------------------------- bounds
NumStores == 1      \* processes, each constructing one store at a time
NumSessions == 1    \* request handlers holding a session object
MaxIds == 2         \* identifiers that may be minted
MaxTicks == 1       \* clock advances, each of TickStep seconds
MaxJar == 1         \* cookies the client keeps for replay

\* ------------------------------------------------------- program constants
\* expiryTime = 60 * time.Minute, in the seconds of time.Unix()
expiryTime == 60 * 60
\* Options.MaxAge: 86400 * 30
DefaultMaxAge == 86400 * 30
\* securecookie's default length cap (store.go quotes it for MaxLength)
DefaultMaxLength == 4096
dynamodbUuidColumnName == "uuid"
dynamodbExpirationColumnName == "expiration"
dynamodbDataColumnName == "data"

\* ------------------------------------------------------------ value sets
StoreIds == 1..NumStores
SessIds == 1..NumSessions
Ids == 1..MaxIds
NoId == 0                         \* session.ID == ""
None == [kind |-> "none"]
NoErr == "nil"
NoKey == "nil"                    \* a nil block key: no encryption
Outcomes == {"ok", "err"}         \* what a backend call may do
TickStep == 2 * expiryTime

\* The session name the handlers use (store_test.go: "test-session").
SessionName == "test-session"

\* session.Values, a map[interface{}]interface{}: a set of <<key, value>>
\* pairs with distinct keys.  "large" stands for a value of several
\* thousand bytes (gofakeit.Sentence(1000) in store_test.go).
ValueMaps == { {}, {<<"hello", "world">>}, {<<"hello", "large">>} }

\* The flat keyPairs arguments stores are constructed with
\* (hash key, block key, hash key, ...), as securecookie.CodecsFromPairs
\* reads them.
KeyPairLists == { <<"k1">>, <<"k2", "b2", "k1">> }

\* The values the application may pass to MaxLength: the default, and a cap
\* between the length of an encoded empty map and of an encoded identifier.
SmallMaxLength == 128
MaxLengths == {DefaultMaxLength, SmallMaxLength}

\* The max-age values a handler may set on its session.
MaxAges == {-1, 0, DefaultMaxAge}

VARIABLES
    now,      \* the clock, seconds
    table,    \* the DynamoDB table: None or [keySchema, billing, ttlAttr]
    db,       \* the table's items: id -> None or [expiration, data]
    ctor,     \* per store slot, the construction in progress
    store,    \* per store slot, the *DdbStore returned (None: none)
    sess,     \* per handler, its *sessions.Session (None: none)
    jar,      \* the cookies the client holds
    nextId,   \* the next identifier GenerateRandomKey yields
    saved,    \* history: per id with a record, the last successful Save
    last      \* the operation that led to this state, with its results

vars == <<now, table, db, ctor, store, sess, jar, nextId, saved, last>>

\* ------------------------------------------------- codec (securecookie)
\* A token is what Encode returns: the value, sealed under a name, a hash
\* key and (optionally) a block key, with the time of encoding and its
\* length.  type is the gob type of the value: "string" (an identifier) or
\* "map" (session.Values).
NoCookie == [kind |-> "none"]          \* the request carries no cookie
EmptyCookie == [kind |-> "empty"]      \* a cookie with the value ""
ForgedCookie ==
    [kind |-> "token", name |-> SessionName, type |-> "string", val |-> 1,
     hashKey |-> "evil", blockKey |-> NoKey, ts |-> 0, len |-> 160]

RECURSIVE MapLen(_)
MapLen(m) ==
    IF m = {} THEN 0
    ELSE LET p == CHOOSE q \in m : TRUE
         IN (IF p[2] = "large" THEN 6000 ELSE 30) + MapLen(m \ {p})

\* gob: an identifier is 52 characters (base32 of 32 bytes) plus a header;
\* a map is its type description plus its entries.
SerializedLen(type, val) ==
    IF type = "string" THEN 52 + 4 ELSE 20 + MapLen(val)

B64Len(n) == 4 * ((n + 2) \div 3)

\* base64("timestamp|base64(payload)|mac"), the payload 16 bytes longer
\* (the IV) when it is encrypted.
EncodedLen(type, val, codec) ==
    B64Len(10 + 1
           + B64Len(SerializedLen(type, val)
                    + (IF codec.blockKey # NoKey THEN 16 ELSE 0))
           + 1 + 32)

\* securecookie.CodecsFromPairs: keyPairs read two by two, the last block
\* key nil when the count is odd; each codec with securecookie's defaults.
CodecsFromPairs(keyPairs) ==
    [i \in 1..((Len(keyPairs) + 1) \div 2) |->
        [hashKey |-> keyPairs[2 * i - 1],
         blockKey |-> IF 2 * i <= Len(keyPairs) THEN keyPairs[2 * i] ELSE NoKey,
         maxAge |-> DefaultMaxAge,
         maxLength |-> DefaultMaxLength]]

\* SecureCookie.Encode at time t.
Encode(name, type, val, codec, t) ==
    LET len == EncodedLen(type, val, codec)
    IN IF codec.maxLength # 0 /\ len > codec.maxLength
       THEN [err |-> "encode", token |-> None]
       ELSE [err |-> NoErr,
             token |-> [kind |-> "token", name |-> name, type |-> type,
                        val |-> val, hashKey |-> codec.hashKey,
                        blockKey |-> codec.blockKey, ts |-> t, len |-> len]]

\* SecureCookie.Decode at time t into a destination of gob type `type`:
\* length cap, MAC over name and value, timestamp, decryption, gob.
DecodeOk(name, token, type, codec, t) ==
    /\ token.kind = "token"
    /\ ~(codec.maxLength # 0 /\ token.len > codec.maxLength)
    /\ token.hashKey = codec.hashKey
    /\ token.name = name
    /\ ~(codec.maxAge # 0 /\ token.ts < t - codec.maxAge)
    /\ token.blockKey = codec.blockKey
    /\ token.type = type

\* securecookie.EncodeMulti: the first codec that encodes.
RECURSIVE EncodeMultiFrom(_, _, _, _, _, _)
EncodeMultiFrom(i, name, type, val, codecs, t) ==
    IF i > Len(codecs) THEN [err |-> "encode", token |-> None]
    ELSE LET e == Encode(name, type, val, codecs[i], t)
         IN IF e.err = NoErr THEN e
            ELSE EncodeMultiFrom(i + 1, name, type, val, codecs, t)

EncodeMulti(name, type, val, codecs, t) ==
    EncodeMultiFrom(1, name, type, val, codecs, t)

\* securecookie.DecodeMulti: the first codec that decodes; an error when
\* none does.  ok tells whether dst was written, val what was written.
RECURSIVE DecodeMultiFrom(_, _, _, _, _, _)
DecodeMultiFrom(i, name, token, type, codecs, t) ==
    IF i > Len(codecs) THEN [err |-> "decode", ok |-> FALSE]
    ELSE IF DecodeOk(name, token, type, codecs[i], t)
         THEN [err |-> NoErr, ok |-> TRUE]
         ELSE DecodeMultiFrom(i + 1, name, token, type, codecs, t)

\* DecodeMulti trying the first codec only.
DecodeMulti_firstOnly(name, token, type, codecs, t) ==
    IF Len(codecs) > 0 /\ DecodeOk(name, token, type, codecs[1], t)
    THEN [err |-> NoErr, ok |-> TRUE]
    ELSE [err |-> "decode", ok |-> FALSE]

DecodeMulti(name, token, type, codecs, t) ==
    DecodeMultiFrom(1, name, token, type, codecs, t)

\* gob decoding into an existing map adds the decoded entries to it.
MergeMap(dst, src) ==
    src \cup {p \in dst : \A q \in src : q[1] # p[1]}

\* ------------------------------------------------------ backend (DynamoDB)
\* Each call answers [err, ...]; `out` is the environment's outcome.  The
\* SDK returns a nil output together with every error.
Nil == [kind |-> "nil"]

\* A key attribute may not be the empty string (ValidationException).
KeyErr(id, out) ==
    IF out = "err" THEN "backend"
    ELSE IF table = None THEN "notfound"
    ELSE IF id = NoId THEN "validation"
    ELSE NoErr

GetItem(id, out) ==
    IF KeyErr(id, out) # NoErr
    THEN [output |-> Nil, err |-> KeyErr(id, out)]
    ELSE [output |-> [kind |-> "output", Item |-> db[id]], err |-> NoErr]

\* A put that adds the new payload's entries to the item's payload (an
\* update of the item in place of its replacement).
PutItem_merge(id, expiration, data, out) ==
    IF KeyErr(id, out) # NoErr
    THEN [err |-> KeyErr(id, out), db |-> db]
    ELSE [err |-> NoErr,
          db |-> [db EXCEPT ![id] =
                    [kind |-> "item",
                     expiration |-> expiration,
                     data |-> IF db[id] = None THEN data
                              ELSE [data EXCEPT
                                      !.val = MergeMap(db[id].data.val, @)]]]]

\* PutItem: the item replaces whatever item has its key.
PutItem(id, expiration, data, out) ==
    IF KeyErr(id, out) # NoErr
    THEN [err |-> KeyErr(id, out), db |-> db]
    ELSE [err |-> NoErr,
          db |-> [db EXCEPT ![id] = [kind |-> "item",
                                     expiration |-> expiration,
                                     data |-> data]]]

DeleteItem(id, out) ==
    IF KeyErr(id, out) # NoErr
    THEN [err |-> KeyErr(id, out), db |-> db]
    ELSE [err |-> NoErr, db |-> [db EXCEPT ![id] = None]]

DescribeTable(out) ==
    IF out = "err" THEN "backend"
    ELSE IF table = None THEN "notfound"
    ELSE NoErr

CreateTable(out) ==
    IF out = "err" THEN [err |-> "backend", table |-> table]
    ELSE IF table # None THEN [err |-> "inuse", table |-> table]
    ELSE [err |-> NoErr,
          table |-> [kind |-> "table",
                     keySchema |-> <<dynamodbUuidColumnName, "S", "HASH">>,
                     billing |-> "PAY_PER_REQUEST",
                     ttlAttr |-> "nil"]]

UpdateTimeToLive(attr, out) ==
    IF out = "err" THEN [err |-> "backend", table |-> table]
    ELSE IF table = None THEN [err |-> "notfound", table |-> table]
    ELSE IF table.ttlAttr # "nil" THEN [err |-> "validation", table |-> table]
    ELSE [err |-> NoErr, table |-> [table EXCEPT !.ttlAttr = attr]]

\* ------------------------------------------------------------ the store
\* What an operation reports in `last`: the handler and store it ran on,
\* the cookie the request carried, the error returned, whether it ended in
\* a panic, the backend calls it made with their errors, and the cookie it
\* set on the response.
Report(op, s, st, cookie, err, panicked, calls, setCookie) ==
    [op |-> op, s |-> s, st |-> st, cookie |-> cookie, err |-> err,
     panicked |-> panicked, calls |-> calls, setCookie |-> setCookie]

\* What `last` holds after a step that is no call of the store.
Quiet == Report("-", 0, 0, NoCookie, NoErr, FALSE, <<>>, None)

\* DdbStore.MaxAge: the store's option and every codec's max age.
MaxAge(ds, age) ==
    [ds EXCEPT !.maxAge = age,
               !.codecs = [i \in DOMAIN ds.codecs |->
                              [ds.codecs[i] EXCEPT !.maxAge = age]]]

\* The DdbStore built by NewDdbStore before ensureTable runs.
DdbStore(keyPairs) ==
    MaxAge([kind |-> "store", codecs |-> CodecsFromPairs(keyPairs),
            maxAge |-> DefaultMaxAge, used |-> FALSE],
           DefaultMaxAge)

Idle == [pc |-> "idle", keyPairs |-> <<>>, calls |-> <<>>, err |-> NoErr]

\* NewDdbStore up to the call of ensureTable; cfgOk: utilkit.NewConfig
\* gave a configuration.  A process constructs its store when it starts;
\* constructing again (after a failure, or to deploy other keys) is a
\* restart: the store and the sessions the process held are gone, the
\* table, its items and the client's cookies stay.
NewDdbStore(st, keyPairs, cfgOk) ==
    /\ ctor[st].pc \in {"idle", "failed", "done"}
    /\ store' = [store EXCEPT ![st] = None]
    /\ sess' = [s \in DOMAIN sess |->
                  IF sess[s] # None /\ sess[s].store = st THEN None ELSE sess[s]]
    /\ ctor' = [ctor EXCEPT ![st] =
                  [pc |-> IF cfgOk THEN "ensureTable" ELSE "failed",
                   keyPairs |-> keyPairs,
                   calls |-> <<>>,
                   err |-> IF cfgOk THEN NoErr ELSE "config"]]
    /\ last' = Report("NewDdbStore", 0, st, NoCookie,
                      IF cfgOk THEN NoErr ELSE "config", FALSE, <<>>, None)
    /\ UNCHANGED <<now, table, db, jar, nextId, saved>>

\* ensureTable calling createTable whatever DescribeTable answers.
ensureTable_alwaysCreate(st, out) ==
    /\ ctor[st].pc = "ensureTable"
    /\ LET err == DescribeTable(out)
       IN /\ ctor' = [ctor EXCEPT ![st] =
                        [@ EXCEPT !.pc = "createTable",
                                  !.calls = Append(@, <<"DescribeTable", err>>)]]
          /\ last' = Report("ensureTable", 0, st, NoCookie, NoErr, FALSE,
                            <<<<"DescribeTable", err>>>>, None)
    /\ UNCHANGED <<now, table, db, store, sess, jar, nextId, saved>>

\* ensureTable: DescribeTable; found: the store is returned; not found:
\* createTable is called; any other error is returned.
ensureTable(st, out) ==
    /\ ctor[st].pc = "ensureTable"
    /\ LET err == DescribeTable(out)
           calls == Append(ctor[st].calls, <<"DescribeTable", err>>)
       IN /\ ctor' = [ctor EXCEPT ![st] =
                        [@ EXCEPT !.pc = IF err = NoErr THEN "done"
                                         ELSE IF err = "notfound" THEN "createTable"
                                         ELSE "failed",
                                  !.calls = calls,
                                  !.err = IF err = "notfound" THEN NoErr ELSE err]]
          /\ store' = IF err = NoErr
                      THEN [store EXCEPT ![st] = DdbStore(ctor[st].keyPairs)]
                      ELSE store
          /\ last' = Report("ensureTable", 0, st, NoCookie,
                            IF err = "notfound" THEN NoErr ELSE err, FALSE,
                            <<<<"DescribeTable", err>>>>, None)
    /\ UNCHANGED <<now, table, db, sess, jar, nextId, saved>>

\* createTable going on to the sleep when the table is already there.
createTable_ignoreInUse(st, out) ==
    /\ ctor[st].pc = "createTable"
    /\ LET r == CreateTable(out)
           ok == r.err \in {NoErr, "inuse"}
       IN /\ table' = r.table
          /\ ctor' = [ctor EXCEPT ![st] =
                        [@ EXCEPT !.pc = IF ok THEN "sleep" ELSE "failed",
                                  !.calls = Append(@, <<"CreateTable", r.err>>),
                                  !.err = IF ok THEN NoErr ELSE r.err]]
          /\ last' = Report("createTable", 0, st, NoCookie, r.err, FALSE,
                            <<<<"CreateTable", r.err>>>>, None)
    /\ UNCHANGED <<now, db, store, sess, jar, nextId, saved>>

\* createTable, the CreateTable call: an error is returned, success leads
\* to the fixed sleep.
createTable(st, out) ==
    /\ ctor[st].pc = "createTable"
    /\ LET r == CreateTable(out)
       IN /\ table' = r.table
          /\ ctor' = [ctor EXCEPT ![st] =
                        [@ EXCEPT !.pc = IF r.err = NoErr THEN "sleep" ELSE "failed",
                                  !.calls = Append(@, <<"CreateTable", r.err>>),
                                  !.err = r.err]]
          /\ last' = Report("createTable", 0, st, NoCookie, r.err, FALSE,
                            <<<<"CreateTable", r.err>>>>, None)
    /\ UNCHANGED <<now, db, store, sess, jar, nextId, saved>>

\* createTable returning the store although UpdateTimeToLive failed.
createTableTTL_ignoreErr(st, out) ==
    /\ ctor[st].pc = "sleep"
    /\ LET r == UpdateTimeToLive(dynamodbExpirationColumnName, out)
       IN /\ table' = r.table
          /\ ctor' = [ctor EXCEPT ![st] =
                        [@ EXCEPT !.pc = "done",
                                  !.calls = Append(@, <<"UpdateTimeToLive", r.err>>),
                                  !.err = r.err]]
          /\ store' = [store EXCEPT ![st] = DdbStore(ctor[st].keyPairs)]
          /\ last' = Report("createTableTTL", 0, st, NoCookie, r.err, FALSE,
                            <<<<"UpdateTimeToLive", r.err>>>>, None)
    /\ UNCHANGED <<now, db, sess, jar, nextId, saved>>

\* createTable after time.Sleep: the UpdateTimeToLive call; an error is
\* returned, success returns the store.
createTableTTL(st, out) ==
    /\ ctor[st].pc = "sleep"
    /\ LET r == UpdateTimeToLive(dynamodbExpirationColumnName, out)
       IN /\ table' = r.table
          /\ ctor' = [ctor EXCEPT ![st] =
                        [@ EXCEPT !.pc = IF r.err = NoErr THEN "done" ELSE "failed",
                                  !.calls = Append(@, <<"UpdateTimeToLive", r.err>>),
                                  !.err = r.err]]
          /\ store' = IF r.err = NoErr
                      THEN [store EXCEPT ![st] = DdbStore(ctor[st].keyPairs)]
                      ELSE store
          /\ last' = Report("createTableTTL", 0, st, NoCookie, r.err, FALSE,
                            <<<<"UpdateTimeToLive", r.err>>>>, None)
    /\ UNCHANGED <<now, db, sess, jar, nextId, saved>>

\* DdbStore.MaxLength, called while the application sets the store up,
\* before the store serves a request.
MaxLength(st, l) ==
    /\ store[st] # None
    /\ ~store[st].used
    /\ store' = [store EXCEPT ![st] =
                   [@ EXCEPT !.codecs = [i \in DOMAIN @ |->
                                            [@[i] EXCEPT !.maxLength = l]]]]
    /\ last' = Report("MaxLength", 0, st, NoCookie, NoErr, FALSE, <<>>, None)
    /\ UNCHANGED <<now, table, db, ctor, sess, jar, nextId, saved>>

\* ---------------------------------------------------------- the sessions
\* sessions.NewSession followed by New's first three assignments: an empty
\* values map, an empty identifier, a copy of the store's options.
NewSession(st, name) ==
    [kind |-> "session", store |-> st, name |-> name, id |-> NoId,
     values |-> {}, isNew |-> TRUE, maxAge |-> store[st].maxAge]

\* load answering from memory, with no call of the backend.
load_noGet(session, out) ==
    [panicked |-> FALSE, err |-> NoErr, session |-> session, calls |-> <<>>]

\* load without the decoding of the item's data into session.Values.
load_noDecode(session, out) ==
    LET r == GetItem(session.id, out)
    IN [panicked |-> r.output = Nil, err |-> NoErr, session |-> session,
        calls |-> <<<<"GetItem", r.err>>>>]

\* load: GetItem, then output.Item is read before err is looked at; the
\* output is nil whenever err is not, and reading a field of nil panics.
\* No item: nil is returned.  An item: its data is decoded into
\* session.Values.
load(session, out) ==
    LET r == GetItem(session.id, out)
        calls == <<<<"GetItem", r.err>>>>
        codecs == store[session.store].codecs
    IN IF r.output = Nil
       THEN [panicked |-> TRUE, err |-> NoErr, session |-> session,
             calls |-> calls]
       ELSE IF r.output.Item = None
       THEN [panicked |-> FALSE, err |-> NoErr, session |-> session,
             calls |-> calls]
       ELSE IF r.err # NoErr
       THEN [panicked |-> FALSE, err |-> r.err, session |-> session,
             calls |-> calls]
       ELSE LET encodedData == r.output.Item.data
                d == DecodeMulti(session.name, encodedData, "map", codecs, now)
            IN [panicked |-> FALSE, err |-> d.err,
                session |-> IF d.ok
                            THEN [session EXCEPT
                                    !.values = MergeMap(@, encodedData.val)]
                            ELSE session,
                calls |-> calls]

\* New going on to load although the cookie did not decode.
NewResult_loadAnyway(st, name, c, out) ==
    LET session == NewSession(st, name)
    IN IF c = NoCookie
       THEN [panicked |-> FALSE, err |-> NoErr, session |-> session,
             calls |-> <<>>]
       ELSE load([session EXCEPT !.id = IF c.kind = "token" /\ c.type = "string"
                                        THEN c.val ELSE NoId], out)

\* The body of New on a request carrying cookie c (NoCookie: none).
NewResult(st, name, c, out) ==
    LET session == NewSession(st, name)
        codecs == store[st].codecs
    IN IF c = NoCookie
       THEN [panicked |-> FALSE, err |-> NoErr, session |-> session,
             calls |-> <<>>]
       ELSE LET d == DecodeMulti(name, c, "string", codecs, now)
            IN IF ~d.ok
               THEN [panicked |-> FALSE, err |-> d.err, session |-> session,
                     calls |-> <<>>]
               ELSE LET l == load([session EXCEPT !.id = c.val], out)
                    IN IF l.err = NoErr /\ ~l.panicked
                       THEN [l EXCEPT !.session.isNew = FALSE]
                       ELSE l

\* New: handler s asks store st for the session `name` of a request.
New(s, st, name, c, out) ==
    /\ store[st] # None
    /\ LET r == NewResult(st, name, c, out)
       IN /\ sess' = [sess EXCEPT ![s] = IF r.panicked THEN None ELSE r.session]
          /\ last' = Report("New", s, st, c, r.err, r.panicked, r.calls, None)
    /\ store' = [store EXCEPT ![st].used = TRUE]
    /\ UNCHANGED <<now, table, db, ctor, jar, nextId, saved>>

\* sessions.NewCookie(name, value, options) as handed to http.SetCookie.
NewCookie(name, value, maxAge) ==
    [kind |-> "cookie", name |-> name, value |-> value, maxAge |-> maxAge]

\* erase overwriting the record with an expired one.
erase_tombstone(session, out) ==
    LET r == PutItem(session.id, now, EmptyCookie, out)
    IN [err |-> r.err, db |-> r.db, calls |-> <<<<"DeleteItem", r.err>>>>]

\* erase that reports success without deleting.
erase_noDelete(session, out) ==
    [err |-> NoErr, db |-> db, calls |-> <<<<"DeleteItem", NoErr>>>>]

\* erase: DeleteItem on the session's identifier.
erase(session, out) ==
    LET r == DeleteItem(session.id, out)
    IN [err |-> r.err, db |-> r.db, calls |-> <<<<"DeleteItem", r.err>>>>]

\* save taking the record's expiration from the session's max-age.
save_maxAgeExpiry(session, out) ==
    LET e == EncodeMulti(session.name, "map", session.values,
                         store[session.store].codecs, now)
    IN IF e.err # NoErr
       THEN [err |-> e.err, db |-> db, calls |-> <<>>]
       ELSE LET expiration == now + session.maxAge
                r == PutItem(session.id, expiration, e.token, out)
            IN [err |-> r.err, db |-> r.db, calls |-> <<<<"PutItem", r.err>>>>]

\* save: the values are encoded, then put with expiration now + expiryTime.
save(session, out) ==
    LET e == EncodeMulti(session.name, "map", session.values,
                         store[session.store].codecs, now)
    IN IF e.err # NoErr
       THEN [err |-> e.err, db |-> db, calls |-> <<>>]
       ELSE LET expiration == now + expiryTime
                r == PutItem(session.id, expiration, e.token, out)
            IN [err |-> r.err, db |-> r.db, calls |-> <<<<"PutItem", r.err>>>>]

\* Save minting an identifier on every call.
SaveId_alwaysMint(session, fresh) == fresh

\* The identifier Save leaves in the session: minted when it is empty.
SaveId(session, fresh) ==
    IF session.id = NoId THEN fresh ELSE session.id

\* Save setting the cookie whatever the backend call returned.
SaveResult_cookieAnyway(session, fresh, out) ==
    IF session.maxAge <= 0
    THEN LET r == erase(session, out)
         IN [err |-> r.err, db |-> r.db, calls |-> r.calls,
             session |-> session,
             setCookie |-> NewCookie(session.name, EmptyCookie,
                                     session.maxAge)]
    ELSE LET withId == [session EXCEPT !.id = SaveId(session, fresh)]
             r == save(withId, out)
             encoded == EncodeMulti(withId.name, "string", withId.id,
                                    store[withId.store].codecs, now)
         IN [err |-> IF r.err # NoErr THEN r.err ELSE encoded.err,
             db |-> r.db, calls |-> r.calls, session |-> withId,
             setCookie |-> IF encoded.err # NoErr THEN None
                           ELSE NewCookie(withId.name, encoded.token,
                                          withId.maxAge)]

\* The body of Save; fresh: what GenerateRandomKey yields if it is called.
SaveResult(session, fresh, out) ==
    IF session.maxAge <= 0
    THEN LET r == erase(session, out)
         IN [err |-> r.err, db |-> r.db, calls |-> r.calls,
             session |-> session,
             setCookie |-> IF r.err # NoErr THEN None
                           ELSE NewCookie(session.name, EmptyCookie,
                                          session.maxAge)]
    ELSE LET withId == [session EXCEPT !.id = SaveId(session, fresh)]
             r == save(withId, out)
             encoded == EncodeMulti(withId.name, "string", withId.id,
                                    store[withId.store].codecs, now)
         IN [err |-> IF r.err # NoErr THEN r.err ELSE encoded.err,
             db |-> r.db, calls |-> r.calls, session |-> withId,
             setCookie |-> IF r.err # NoErr \/ encoded.err # NoErr THEN None
                           ELSE NewCookie(withId.name, encoded.token,
                                          withId.maxAge)]

\* Save: handler s saves its session through the session's store.
Save(s, out) ==
    /\ sess[s] # None
    /\ sess[s].maxAge > 0 /\ sess[s].id = NoId => nextId <= MaxIds
    /\ LET r == SaveResult(sess[s], nextId, out)
           minted == r.session.id # sess[s].id
       IN /\ sess' = [sess EXCEPT ![s] = r.session]
          /\ db' = r.db
          /\ nextId' = IF minted THEN nextId + 1 ELSE nextId
          /\ saved' = IF r.setCookie = None THEN saved
                      ELSE IF r.setCookie.value = EmptyCookie
                      THEN [id \in Ids |->
                              IF r.db[id] = None THEN None ELSE saved[id]]
                      ELSE [saved EXCEPT ![r.session.id] =
                              [kind |-> "saved",
                               values |-> r.session.values,
                               codecs |-> store[r.session.store].codecs]]
          /\ last' = Report("Save", s, sess[s].store, NoCookie, r.err, FALSE,
                            r.calls, r.setCookie)
    /\ UNCHANGED <<now, table, ctor, store, jar>>

\* The handler changes its session between New and Save.
SetValues(s, v) ==
    /\ sess[s] # None
    /\ sess' = [sess EXCEPT ![s].values = v]
    /\ last' = Quiet
    /\ UNCHANGED <<now, table, db, ctor, store, jar, nextId, saved>>

\* The handler's assignment when the session shares the store's Options
\* (New handing out s.Options itself, not a copy).
SetMaxAge_aliased(s, age) ==
    /\ sess[s] # None
    /\ sess' = [sess EXCEPT ![s].maxAge = age]
    /\ store' = [store EXCEPT ![sess[s].store].maxAge = age]
    /\ last' = Quiet
    /\ UNCHANGED <<now, table, db, ctor, jar, nextId, saved>>

\* The handler sets its session's Options.MaxAge; the options are the
\* session's own copy of the store's.
SetMaxAge(s, age) ==
    /\ sess[s] # None
    /\ sess' = [sess EXCEPT ![s].maxAge = age]
    /\ last' = Quiet
    /\ UNCHANGED <<now, table, db, ctor, store, jar, nextId, saved>>

\* ------------------------------------------------------ the environment
\* The client keeps the cookie of the response just written (replacing one
\* it holds when its jar is full); it may present it on any later request.
Receive ==
    /\ last.setCookie # None
    /\ last.setCookie.value # EmptyCookie
    /\ last.setCookie.value \notin jar
    /\ \/ /\ Cardinality(jar) < MaxJar
          /\ jar' = jar \cup {last.setCookie.value}
       \/ /\ Cardinality(jar) >= MaxJar
          /\ \E old \in jar : jar' = (jar \ {old}) \cup {last.setCookie.value}
    /\ last' = Quiet
    /\ UNCHANGED <<now, table, db, ctor, store, sess, nextId, saved>>

Tick ==
    /\ now < MaxTicks * TickStep
    /\ now' = now + TickStep
    /\ last' = Quiet
    /\ UNCHANGED <<table, db, ctor, store, sess, jar, nextId, saved>>

\* DynamoDB's time-to-live: with TTL enabled on the expiration attribute,
\* an item whose expiration lies in the past is deleted, at some time.
TtlExpire(id) ==
    /\ table # None
    /\ table.ttlAttr = dynamodbExpirationColumnName
    /\ db[id] # None
    /\ db[id].expiration < now
    /\ db' = [db EXCEPT ![id] = None]
    /\ saved' = [saved EXCEPT ![id] = None]
    /\ last' = Quiet
    /\ UNCHANGED <<now, table, ctor, store, sess, jar, nextId>>

\* The cookies a request may carry.
RequestCookies == {NoCookie, EmptyCookie, ForgedCookie} \cup jar

Init ==
    /\ now = 0
    /\ table = None
    /\ db = [id \in Ids |-> None]
    /\ ctor = [st \in StoreIds |-> Idle]
    /\ store = [st \in StoreIds |-> None]
    /\ sess = [s \in SessIds |-> None]
    /\ jar = {}
    /\ nextId = 1
    /\ saved = [id \in Ids |-> None]
    /\ last = Quiet

Next ==
    \/ \E st \in StoreIds, kp \in KeyPairLists, cfgOk \in BOOLEAN :
          NewDdbStore(st, kp, cfgOk)
    \/ \E st \in StoreIds, out \in Outcomes : ensureTable(st, out)
    \/ \E st \in StoreIds, out \in Outcomes : createTable(st, out)
    \/ \E st \in StoreIds, out \in Outcomes : createTableTTL(st, out)
    \/ \E st \in StoreIds, l \in MaxLengths : MaxLength(st, l)
    \/ \E s \in SessIds, st \in StoreIds, c \in RequestCookies,
          out \in Outcomes : New(s, st, SessionName, c, out)
    \/ \E s \in SessIds, out \in Outcomes : Save(s, out)
    \/ \E s \in SessIds, v \in ValueMaps : SetValues(s, v)
    \/ \E s \in SessIds, age \in MaxAges : SetMaxAge(s, age)
    \/ Receive
    \/ Tick
    \/ \E id \in Ids : TtlExpire(id)

Spec == Init /\ [][Next]_vars

\* ================================================================ claims
\* The session the last operation ran on, and whether its first backend
\* call came back with an error.
LastSess == sess[last.s]
CallFailed == last.calls # <<>> /\ last.calls[1][2] # NoErr
IsIdToken(c) == c.kind = "token" /\ c.type = "string" /\ c.val \in Ids

\* ---- C1
\* New has just run on a request presenting the cookie a successful Save
\* of this store wrote for an identifier whose record is still there.
C1_Case ==
    /\ last.op = "New"
    /\ IsIdToken(last.cookie)
    /\ saved[last.cookie.val] # None
    /\ saved[last.cookie.val].codecs = store[last.st].codecs
    /\ last.cookie = EncodeMulti(SessionName, "string", last.cookie.val,
                                 store[last.st].codecs, last.cookie.ts).token

\* C1 (persistence): New on a request that presents the cookie written by a
\* successful Save (max-age > 0) of the same store, while the record is
\* neither expired nor deleted, returns a session with is-new = false and
\* the values that Save wrote, unless the backend get itself fails.
C1_Persistence ==
    C1_Case =>
        \/ CallFailed
        \/ /\ ~last.panicked
           /\ last.err = NoErr
           /\ last.calls = <<<<"GetItem", NoErr>>>>
           /\ LastSess # None
           /\ LastSess.isNew = FALSE
           /\ LastSess.id = last.cookie.val
           /\ LastSess.values = saved[last.cookie.val].values

C1_Witness ==
    /\ C1_Case
    /\ ~CallFailed
    /\ LastSess # None
    /\ LastSess.isNew = FALSE
    /\ LastSess.values = {<<"hello", "world">>}

\* ---- C2
\* The three cases of the fresh-session property, for the New that has
\* just returned.
C2_NoCookie == last.cookie = NoCookie
C2_DecodeFails ==
    /\ last.cookie # NoCookie
    /\ ~DecodeMulti(SessionName, last.cookie, "string",
                    store[last.st].codecs, now).ok
C2_NoRecord ==
    /\ last.cookie # NoCookie
    /\ DecodeMulti(SessionName, last.cookie, "string",
                   store[last.st].codecs, now).ok
    /\ db[last.cookie.val] = None

\* C2 (fresh session), as claimed: New returns is-new = true and an empty
\* values map when the request has no cookie, when the cookie does not
\* decode, and when it decodes to an identifier without a record.
C2_FreshSession ==
    (/\ last.op = "New"
     /\ ~last.panicked
     /\ C2_NoCookie \/ C2_DecodeFails \/ C2_NoRecord)
    => LastSess.isNew /\ LastSess.values = {}

\* ---- C3
\* Save has just run with max-age <= 0 on a session that has an identifier.
C3_Case ==
    /\ last.op = "Save"
    /\ LastSess.maxAge <= 0
    /\ LastSess.id # NoId

C4_IdentifierStability ==
    [][\A s \in DOMAIN sess :
          (/\ sess[s] # None
           /\ sess'[s] # None
           /\ ~(last'.op = "New" /\ last'.s = s))
          => IF /\ last'.op = "Save"
                /\ last'.s = s
                /\ sess[s].id = NoId
                /\ sess[s].maxAge > 0
             THEN sess'[s].id = nextId /\ sess'[s].id # NoId
             ELSE sess'[s].id = sess[s].id]_vars

\* A Save on a session loaded from the cookie of identifier 1, after
\* identifier 2 was minted for another session.
C4_Witness ==
    /\ last.op = "Save"
    /\ LastSess.maxAge > 0
    /\ ~LastSess.isNew
    /\ LastSess.id = 1
    /\ nextId = 3

\* ---- C5
\* New has just run, on a store built with codecs [K2, K1], on the cookie
\* that a store built with [K1] wrote for an identifier it saved.
C5_Case ==
    /\ last.op = "New"
    /\ IsIdToken(last.cookie)
    /\ saved[last.cookie.val] # None
    /\ Len(saved[last.cookie.val].codecs) = 1
    /\ Len(store[last.st].codecs) = 2
    /\ store[last.st].codecs[2] = saved[last.cookie.val].codecs[1]
    /\ store[last.st].codecs[1].hashKey # store[last.st].codecs[2].hashKey
    /\ last.cookie = Encode(SessionName, "string", last.cookie.val,
                            saved[last.cookie.val].codecs[1],
                            last.cookie.ts).token

\* C5 (key rotation): a session saved by a store built with [K1] is loaded
\* by a store built with [K2, K1]: the cookie decodes to the same
\* identifier and the record to the same values, is-new = false (unless
\* the backend get fails); and New fails on decoding the cookie only when
\* no codec of the store decodes it.
C5_KeyRotation ==
    /\ C5_Case =>
          \/ CallFailed
          \/ /\ ~last.panicked
             /\ last.err = NoErr
             /\ LastSess.id = last.cookie.val
             /\ LastSess.values = saved[last.cookie.val].values
             /\ LastSess.isNew = FALSE
    /\ (/\ last.op = "New"
        /\ last.cookie # NoCookie
        /\ last.calls = <<>>
        /\ last.err # NoErr)
       => \A i \in DOMAIN store[last.st].codecs :
             ~DecodeOk(SessionName, last.cookie, "string",
                       store[last.st].codecs[i], now)

C5_Witness ==
    /\ C5_Case
    /\ ~CallFailed
    /\ LastSess.isNew = FALSE
    /\ LastSess.values = {<<"hello", "world">>}
    /\ last.cookie.hashKey = "k1"
    /\ store[last.st].codecs[1].hashKey = "k2"

\* ---- C6
\* C6 (idempotent provisioning): a construction that runs when the table
\* already exists finds it with DescribeTable, returns a store with no
\* error and makes no other call, unless DescribeTable itself fails; and a
\* construction calls CreateTable only after DescribeTable answered
\* not-found.
C6_IdempotentProvisioning ==
    /\ (last.op = "ensureTable" /\ table # None) =>
          \/ /\ ctor[last.st].calls = <<<<"DescribeTable", "backend">>>>
             /\ ctor[last.st].pc = "failed"
          \/ /\ ctor[last.st].calls = <<<<"DescribeTable", NoErr>>>>
             /\ ctor[last.st].pc = "done"
             /\ ctor[last.st].err = NoErr
             /\ store[last.st] # None
    /\ \A st \in DOMAIN ctor :
          \A i \in DOMAIN ctor[st].calls :
             ctor[st].calls[i][1] = "CreateTable"
             => i = 2 /\ ctor[st].calls[1] = <<"DescribeTable", "notfound">>

\* A construction has just returned a store from a table that an earlier
\* construction created and enabled expiry on.
C6_Witness ==
    /\ last.op = "ensureTable"
    /\ table # None
    /\ table.ttlAttr = dynamodbExpirationColumnName
    /\ ctor[last.st].pc = "done"
    /\ store[last.st] # None

\* ---- C7
\* C7 (provisioned on success), as claimed: whenever a construction has
\* returned a store, the table exists with the expected key schema and
\* with expiry enabled on the expiration attribute.
C7_ProvisionedOnSuccess ==
    \A st \in DOMAIN ctor :
        ctor[st].pc = "done" =>
            /\ table # None
            /\ table.keySchema = <<dynamodbUuidColumnName, "S", "HASH">>
            /\ table.ttlAttr = dynamodbExpirationColumnName

\* ---- C8
\* C8 (get error returned), as claimed: when New's backend get fails, New
\* returns that error after exactly one get attempt and does not crash.
C8_GetErrorReturned ==
    (last.op = "New" /\ CallFailed) =>
        /\ ~last.panicked
        /\ Len(last.calls) = 1
        /\ last.err = last.calls[1][2]

\* ---- C9
\* C9 (no partial write), as claimed: a Save that returns an encoding
\* error leaves the table's items as they were and sets no cookie.
C9_NoPartialWrite ==
    [][(last'.op = "Save" /\ last'.err = "encode")
       => (db' = db /\ last'.setCookie = None)]_vars

\* ---- C10
\* New has just run on a request whose cookie does not decode.
C10_Case ==
    /\ last.op = "New"
    /\ last.cookie # NoCookie
    /\ ~DecodeMulti(SessionName, last.cookie, "string",
                    store[last.st].codecs, now).ok

\* C10, as claimed: a cookie that does not decode gives a Fresh session,
\* with no backend lookup and no error surfaced to the caller.
C10_DecodeErrorNotSurfaced ==
    C10_Case =>
        /\ ~last.panicked
        /\ LastSess.isNew
        /\ LastSess.values = {}
        /\ last.calls = <<>>
        /\ last.err = NoErr

\* C10, amended: a cookie that does not decode is never fatal: New makes no
\* backend lookup and returns a Fresh session (is-new, no values, no
\* identifier) together with the decode error.
C10_DecodeErrorFresh ==
    C10_Case =>
        /\ ~last.panicked
        /\ LastSess # None
        /\ LastSess.isNew
        /\ LastSess.values = {}
        /\ LastSess.id = NoId
        /\ last.calls = <<>>
        /\ last.err = "decode"

C10_Witness ==
    /\ C10_Case
    /\ IsIdToken(last.cookie)
    /\ last.cookie # ForgedCookie
    /\ LastSess # None
    /\ LastSess.isNew

\* ============================================== concurrent constructions
\* Several processes construct a store against the same table name at the
\* same time (NewDdbStore has no lock; each of its backend calls is one
\* round trip).  Every call a construction has started returns, and the
\* sleep ends: a construction that can take its next step takes it.
NumCtors == 2
CtorSlots == 1..NumCtors

InitCtor ==
    /\ now = 0
    /\ table = None
    /\ db = [id \in Ids |-> None]
    /\ ctor = [st \in CtorSlots |-> Idle]
    /\ store = [st \in CtorSlots |-> None]
    /\ sess = [s \in SessIds |-> None]
    /\ jar = {}
    /\ nextId = 1
    /\ saved = [id \in Ids |-> None]
    /\ last = Quiet

NextCtor ==
    \/ \E st \in CtorSlots, kp \in KeyPairLists, cfgOk \in BOOLEAN :
          NewDdbStore(st, kp, cfgOk)
    \/ \E st \in CtorSlots, out \in Outcomes : ensureTable(st, out)
    \/ \E st \in CtorSlots, out \in Outcomes : createTable(st, out)
    \/ \E st \in CtorSlots, out \in Outcomes : createTableTTL(st, out)

CtorSpec ==
    /\ InitCtor
    /\ [][NextCtor]_vars
    /\ \A st \in CtorSlots :
          /\ WF_vars(\E out \in Outcomes : ensureTable(st, out))
          /\ WF_vars(\E out \in Outcomes : createTable(st, out))
          /\ WF_vars(\E out \in Outcomes : createTableTTL(st, out))

\* ---- C11
\* The backend calls of a construction: DescribeTable, then at most
\* CreateTable, then at most UpdateTimeToLive, each once.
C11_Calls(c) ==
    /\ Len(c.calls) <= 3
    /\ Len(c.calls) >= 1 => c.calls[1][1] = "DescribeTable"
    /\ Len(c.calls) >= 2 => c.calls[2][1] = "CreateTable"
    /\ Len(c.calls) >= 3 => c.calls[3][1] = "UpdateTimeToLive"

\* The two outcomes of a construction, and the errors that give the second.
C11_Outcome(st) ==
    LET c == ctor[st]
    IN /\ c.pc = "done" => store[st] # None /\ c.err = NoErr
       /\ c.pc = "failed" => store[st] = None /\ c.err # NoErr
       /\ c.pc \notin {"done"} => store[st] = None
       /\ (Len(c.calls) >= 1 /\ c.calls[1][2] \notin {NoErr, "notfound"})
          => c.pc = "failed" /\ c.err = c.calls[1][2] /\ Len(c.calls) = 1
       /\ (Len(c.calls) >= 2 /\ c.calls[2][2] # NoErr)
          => c.pc = "failed" /\ c.err = c.calls[2][2] /\ Len(c.calls) = 2
       /\ (Len(c.calls) >= 3 /\ c.calls[3][2] # NoErr)
          => c.pc = "failed" /\ c.err = c.calls[3][2]

\* C11 (bounded construction): a construction makes at most one
\* DescribeTable, one CreateTable and one UpdateTimeToLive call, in that
\* order; it always ends, with a store and no error or with an error and no
\* store; a describe error other than not-found, a create error and an
\* expiry-enable error each end it with the error and no store.
C11_BoundedConstruction ==
    /\ [](\A st \in CtorSlots : C11_Calls(ctor[st]) /\ C11_Outcome(st))
    /\ \A st \in CtorSlots :
          (ctor[st].pc \in {"ensureTable", "createTable", "sleep"})
          ~> (ctor[st].pc \in {"done", "failed"})

\* A construction that made all three calls and failed on the last.
C11_Witness ==
    \E st \in CtorSlots :
        /\ Len(ctor[st].calls) = 3
        /\ ctor[st].calls[3] = <<"UpdateTimeToLive", "backend">>
        /\ ctor[st].pc = "failed"
        /\ store[st] = None

\* ---- C12
\* C12 (loaded-but-missing behaves as Fresh), as claimed: the session New
\* builds from a cookie that decodes to an identifier without a record is
\* the session New builds on a request without cookie: is-new, no values,
\* no identifier (so that its first Save mints one).
C12_MissingBehavesAsFresh ==
    (/\ last.op = "New"
     /\ ~last.panicked
     /\ ~CallFailed
     /\ C2_NoRecord)
    => LastSess = NewSession(last.st, SessionName)

\* ---- C13
\* C13 (backend before cookie): Save makes at most one backend call; it
\* sets a cookie only when that call, the put for max-age > 0 and the
\* delete for max-age <= 0, succeeded; when it sets a non-empty cookie, the
\* cookie carries the session's identifier and the table holds, under that
\* identifier, the record this Save put; when the call fails, Save returns
\* its error and sets no cookie.
C13_BackendBeforeCookie ==
    last.op = "Save" =>
        /\ Len(last.calls) <= 1
        /\ last.setCookie # None =>
              /\ last.err = NoErr
              /\ last.calls =
                   <<<<IF LastSess.maxAge > 0 THEN "PutItem" ELSE "DeleteItem",
                       NoErr>>>>
              /\ (LastSess.maxAge > 0) = (last.setCookie.value # EmptyCookie)
        /\ (last.setCookie # None /\ last.setCookie.value # EmptyCookie) =>
              /\ LastSess.id \in Ids
              /\ last.setCookie.value.kind = "token"
              /\ last.setCookie.value.val = LastSess.id
              /\ db[LastSess.id] # None
              /\ db[LastSess.id].expiration = now + expiryTime
              /\ db[LastSess.id].data.val = LastSess.values
        /\ CallFailed =>
              /\ last.err = last.calls[1][2]
              /\ last.setCookie = None

\* A Save that put the record {hello: world} and then set the cookie.
C13_Witness ==
    /\ last.op = "Save"
    /\ last.calls = <<<<"PutItem", NoErr>>>>
    /\ last.setCookie # None
    /\ last.setCookie.value # EmptyCookie
    /\ last.setCookie.value.val = LastSess.id
    /\ db[LastSess.id] # None
    /\ db[LastSess.id].data.val = {<<"hello", "world">>}

\* ================================================ concurrent handlers
\* Several request handlers share one store that a completed construction
\* returned; each holds its own session.  A handler makes one backend call
\* per New and per Save, and everything else it does touches only its own
\* session and response, so the interleavings of the handlers are the
\* interleavings of these calls.
NumHandlers == 2
Handlers == 1..NumHandlers

\* A max-age shorter than the record's retention window.
ShortMaxAge == 60

\* The max-age values and values maps the concurrent handlers use.
HandlerMaxAges == {-1, ShortMaxAge, DefaultMaxAge}
HandlerValueMaps == { {<<"hello", "world">>}, {<<"count", "one">>} }

\* The table as createTable leaves it: created, expiry enabled.
ProvisionedTable ==
    [kind |-> "table",
     keySchema |-> <<dynamodbUuidColumnName, "S", "HASH">>,
     billing |-> "PAY_PER_REQUEST",
     ttlAttr |-> dynamodbExpirationColumnName]

\* The state after NewDdbStore(region, table, k1) returned a store, having
\* created the table and enabled expiry on it.  The handlers contend for
\* one identifier: GenerateRandomKey is about to yield the last one of Ids.
InitHandlers ==
    /\ now = 0
    /\ table = ProvisionedTable
    /\ db = [id \in Ids |-> None]
    /\ ctor = [st \in StoreIds |->
                 [pc |-> "done", keyPairs |-> <<"k1">>,
                  calls |-> <<<<"DescribeTable", "notfound">>,
                              <<"CreateTable", NoErr>>,
                              <<"UpdateTimeToLive", NoErr>>>>,
                  err |-> NoErr]]
    /\ store = [st \in StoreIds |-> DdbStore(<<"k1">>)]
    /\ sess = [s \in Handlers |-> None]
    /\ jar = {}
    /\ nextId = MaxIds
    /\ saved = [id \in Ids |-> None]
    /\ last = Quiet

NextHandlers ==
    \/ \E s \in Handlers, st \in StoreIds, c \in {NoCookie} \cup jar,
          out \in Outcomes : New(s, st, SessionName, c, out)
    \/ \E s \in Handlers, out \in Outcomes : Save(s, out)
    \/ \E s \in Handlers, v \in HandlerValueMaps : SetValues(s, v)
    \/ \E s \in Handlers, age \in HandlerMaxAges : SetMaxAge(s, age)
    \/ Receive
    \/ Tick
    \/ \E id \in Ids : TtlExpire(id)

HandlerSpec == InitHandlers /\ [][NextHandlers]_vars

\* ---- C14
\* C14 (unconditional upsert): after every successful Save with
\* max-age > 0 the record of the session's identifier is the one this Save
\* put: the encoding of the session's values, with expiration = the time of
\* the Save + 60 minutes, whatever the session's max-age and whatever
\* record was there; and no Save makes a get call.
C14_UnconditionalUpsert ==
    /\ (last.op = "Save" /\ LastSess.maxAge > 0 /\ last.err = NoErr) =>
          /\ last.calls = <<<<"PutItem", NoErr>>>>
          /\ db[LastSess.id] =
               [kind |-> "item",
                expiration |-> now + 60 * 60,
                data |-> EncodeMulti(LastSess.name, "map", LastSess.values,
                                     store[LastSess.store].codecs, now).token]
    /\ last.op = "Save" =>
          \A i \in DOMAIN last.calls : last.calls[i][1] # "GetItem"

\* A Save with a max-age of one minute, at a later time, of a session that
\* was loaded from its record.
C14_Witness ==
    /\ last.op = "Save"
    /\ last.err = NoErr
    /\ LastSess.maxAge = ShortMaxAge
    /\ ~LastSess.isNew
    /\ LastSess.values = {<<"count", "one">>}
    /\ now = TickStep
    /\ db[LastSess.id] # None
    /\ db[LastSess.id].expiration = TickStep + expiryTime

\* ---- C15
\* The record a Save of session x at time t puts.
C15_RecordOf(x, t) ==
    [kind |-> "item",
     expiration |-> t + expiryTime,
     data |-> EncodeMulti(x.name, "map", x.values, store[x.store].codecs,
                          t).token]

\* C15 (last write wins, whole records): with handlers saving and loading
\* the same identifier in any interleaving, the record of an identifier
\* changes only by a Save of a session with that identifier, which leaves
\* exactly the payload and expiration of that Save (or no record, when it
\* erases), or by the backend's expiry, which removes it; and a New that
\* loads returns exactly the values of the record the table holds at that
\* time, never entries of two Saves.
C15_WholeRecords ==
    [][/\ \A id \in Ids :
             db'[id] # db[id] =>
                 \/ /\ last'.op = "Save"
                    /\ sess[last'.s].id \in {id, NoId}
                    /\ sess'[last'.s].id = id
                    /\ \/ /\ sess[last'.s].maxAge <= 0
                          /\ db'[id] = None
                       \/ /\ sess[last'.s].maxAge > 0
                          /\ db'[id] = C15_RecordOf(sess'[last'.s], now)
                 \/ /\ last'.op = "-"
                    /\ db'[id] = None
       /\ (/\ last'.op = "New"
           /\ last'.calls = <<<<"GetItem", NoErr>>>>)
          => /\ sess'[last'.s] # None
             /\ sess'[last'.s].id = last'.cookie.val
             /\ sess'[last'.s].values =
                  IF db[last'.cookie.val] = None THEN {}
                  ELSE db[last'.cookie.val].data.val]_vars

\* Two handlers hold sessions of the same identifier with different
\* values; the one that saved last left the record.
C15_Witness ==
    /\ \A s \in {1, 2} : sess[s] # None /\ sess[s].values # {}
    /\ sess[1].id = sess[2].id
    /\ sess[1].id # NoId
    /\ sess[1].values # sess[2].values
    /\ last.op = "Save"
    /\ last.calls = <<<<"PutItem", NoErr>>>>
    /\ db[sess[1].id] = C15_RecordOf(LastSess, now)

\* ---- C16
\* C16 (racing constructions): when constructions race on an absent table,
\* CreateTable creates it only while it is absent; once it exists no step
\* changes its schema, a CreateTable call is rejected and leaves it as it
\* is, and the construction whose create was rejected has failed with that
\* error, with no store and without an UpdateTimeToLive call; every
\* construction that reached CreateTable ends.
C16_CreatedOnce ==
    /\ [][/\ last'.op = "createTable" =>
                IF table = None /\ last'.err = NoErr
                THEN /\ table' # None
                     /\ ctor'[last'.st].pc = "sleep"
                ELSE /\ table' = table
                     /\ last'.err # NoErr
                     /\ table # None => last'.err \in {"inuse", "backend"}
                     /\ ctor'[last'.st].pc = "failed"
                     /\ ctor'[last'.st].err = last'.err
                     /\ store'[last'.st] = None
          /\ table # None =>
                /\ table' # None
                /\ table'.keySchema = table.keySchema
                /\ table'.billing = table.billing]_vars
    /\ [](\A st \in CtorSlots :
             (Len(ctor[st].calls) >= 2 /\ ctor[st].calls[2][2] # NoErr)
             => /\ Len(ctor[st].calls) = 2
                /\ ctor[st].pc = "failed"
                /\ store[st] = None)
    /\ \A st \in CtorSlots :
          (ctor[st].pc = "createTable") ~> (ctor[st].pc \in {"done", "failed"})

\* Two constructions both saw the table absent; one created it, the
\* other's create was rejected.
C16_Witness ==
    \E a, b \in CtorSlots :
        /\ a # b
        /\ Len(ctor[a].calls) >= 2
        /\ ctor[a].calls[1] = <<"DescribeTable", "notfound">>
        /\ ctor[a].calls[2] = <<"CreateTable", NoErr>>
        /\ ctor[b].calls = <<<<"DescribeTable", "notfound">>,
                             <<"CreateTable", "inuse">>>>
        /\ ctor[b].pc = "failed"
        /\ store[b] = None
        /\ table # None

\* ---- C17
\* New has just run on a cookie that decodes to an identifier.
C17_Decoded ==
    /\ last.op = "New"
    /\ last.cookie # NoCookie
    /\ DecodeMulti(SessionName, last.cookie, "string",
                   store[last.st].codecs, now).ok

\* Every New that decodes a cookie makes one get; one that returns no
\* error returns the values of the last completed Save of the identifier
\* (none after an erasing Save or the backend's expiry of the record).
C17_NewReadsBackend ==
    C17_Decoded =>
        /\ Len(last.calls) = 1
        /\ last.calls[1][1] = "GetItem"
        /\ (~CallFailed /\ last.err = NoErr) =>
              /\ LastSess # None
              /\ LastSess.values =
                   IF saved[last.cookie.val] = None THEN {}
                   ELSE saved[last.cookie.val].values
              /\ (saved[last.cookie.val] = None) = (db[last.cookie.val] = None)

\* C17 (no caching), as claimed: every New that decodes a cookie makes one
\* get and sees the last completed Save, and every Save makes one put or
\* delete.
C17_NoCaching ==
    /\ C17_NewReadsBackend
    /\ last.op = "Save" =>
          /\ Len(last.calls) = 1
          /\ last.calls[1][1] \in {"PutItem", "DeleteItem"}

\* C17, amended: every New that decodes a cookie makes one get and sees the
\* last completed Save; every Save makes one put (max-age > 0) or one
\* delete (max-age <= 0), except a Save whose values do not encode, which
\* returns the encoding error without a backend call.
C17_NoCachingButEncoding ==
    /\ C17_NewReadsBackend
    /\ last.op = "Save" =>
          IF /\ LastSess.maxAge > 0
             /\ EncodeMulti(LastSess.name, "map", LastSess.values,
                            store[LastSess.store].codecs, now).err # NoErr
          THEN last.calls = <<>> /\ last.err = "encode"
          ELSE /\ Len(last.calls) = 1
               /\ last.calls[1][1] = IF LastSess.maxAge > 0 THEN "PutItem"
                                     ELSE "DeleteItem"

\* A New that loaded the values of a Save made for an earlier request,
\* after another session was saved too.
C17_Witness ==
    /\ C17_Decoded
    /\ last.calls = <<<<"GetItem", NoErr>>>>
    /\ saved[last.cookie.val] # None
    /\ LastSess.values = {<<"hello", "world">>}
    /\ nextId = 3
    /\ \A id \in Ids : db[id] # None

\* ---- C18
\* C18 (idempotent erase), as claimed: a Save with max-age <= 0 on a
\* session that has no record (erased, expired, or never saved), the
\* backend being reachable, returns no error, leaves the table's items as
\* they are and sets the expiring cookie.
C18_EraseIdempotent ==
    [][(/\ last'.op = "Save"
        /\ sess[last'.s] # None
        /\ sess[last'.s].maxAge <= 0
        /\ \/ sess[last'.s].id = NoId
           \/ db[sess[last'.s].id] = None
        /\ ~(last'.calls # <<>> /\ last'.calls[1][2] = "backend"))
       => /\ last'.err = NoErr
          /\ db' = db
          /\ last'.setCookie = NewCookie(sess[last'.s].name, EmptyCookie,
                                         sess[last'.s].maxAge)]_vars

\* ---- C19
\* C19 (store unchanged by requests): no New, no Save and no step of a
\* handler on its session, setting the session's max-age included, changes
\* the store's max-age or its codecs; every New returns a session whose
\* max-age is the store's default.
C19_StoreImmutable ==
    /\ [][\A st \in DOMAIN store :
             (store[st] # None /\ last'.op \in {"New", "Save", "-"})
             => /\ store'[st] # None
                /\ store'[st].codecs = store[st].codecs
                /\ store'[st].maxAge = store[st].maxAge]_vars
    /\ []((last.op = "New" /\ ~last.panicked)
          => /\ LastSess.maxAge = store[last.st].maxAge
             /\ LastSess.maxAge = DefaultMaxAge)

\* A New on the cookie of a session that a Save with max-age <= 0 erased
\* (no time has passed, so the record did not expire).
C19_Witness ==
    /\ last.op = "New"
    /\ IsIdToken(last.cookie)
    /\ last.calls = <<<<"GetItem", NoErr>>>>
    /\ db[last.cookie.val] = None
    /\ now = 0
    /\ LastSess # None
    /\ LastSess.maxAge = DefaultMaxAge

\* ---- C20
\* C20 (records only by Save with max-age > 0): New leaves the table's
\* items as they are; a Save with max-age <= 0 mints no identifier and
\* writes no record; and a record appears for an identifier only by a Save
\* with max-age > 0 of a session with that identifier.
C20_RecordsOnlyBySave ==
    [][/\ last'.op = "New" => db' = db
       /\ (/\ last'.op = "Save"
           /\ sess[last'.s].maxAge <= 0)
          => /\ sess'[last'.s].id = sess[last'.s].id
             /\ nextId' = nextId
             /\ \A id \in Ids : db'[id] \in {db[id], None}
       /\ \A id \in Ids :
             (db[id] = None /\ db'[id] # None)
             => /\ last'.op = "Save"
                /\ sess[last'.s].maxAge > 0
                /\ sess'[last'.s].id = id]_vars

\* A session that was never saved with a positive max-age goes through an
\* erasing Save: no identifier, no record.
C20_Witness ==
    /\ last.op = "Save"
    /\ LastSess.maxAge <= 0
    /\ LastSess.id = NoId
    /\ LastSess.values # {}
    /\ nextId = 1
    /\ \A id \in Ids : db[id] = None

====
